---- MODULE Spec2Model ----
(***************************************************************************)
(* Model of src/src/couckoo.py: the LSHProcessor class (signature store,   *)
(* band buckets, hamming similarity, label assignment) and the             *)
(* find_duplicates pipeline that drives it.                                *)
(*                                                                         *)
(* Conventions.                                                            *)
(*  - A Python dict is an insertion-ordered sequence of records            *)
(*    [k |-> key, v |-> value] (self.signatures, each element of           *)
(*    self.hash_buckets_list); self.labels, whose order nothing reads,     *)
(*    is a function.                                                       *)
(*  - A bit vector is a sequence over {0,1}; a packed vector is a          *)
(*    sequence of bytes 0..255.                                            *)
(*  - A similarity x / hash_size^2 is held as its numerator x; the         *)
(*    threshold is held in the same unit, so `similarity >= threshold`     *)
(*    compares numerators.  threshold = hash_size^2 + 1 stands for every   *)
(*    threshold above 1.0.                                                 *)
(*  - A file of the input directory is a number: 0 is a file without an    *)
(*    image extension, 1..NumImages are image files.                       *)
(***************************************************************************)
EXTENDS Integers, Sequences, FiniteSets, TLC

\* ---------------------------------------------------------------- bounds
NumImages == 3
MaxHashSize == 2
MaxStoreHashSize == 4
MaxStoreFiles == 3
MaxPattern == 2

VARIABLES
    pc,                \* position in find_duplicates
    input_dir,         \* the input directory: whether it exists, and its files
    hash_size,         \* find_duplicates argument / self.hash_size
    bands,             \* find_duplicates argument / self.bands
    threshold,         \* find_duplicates argument (numerator, see above)
    file_list,         \* files process_images has still to visit
    signatures,        \* self.signatures
    hash_buckets_list, \* self.hash_buckets_list
    labels,            \* self.labels
    label_counter,     \* self.label_counter
    similarity_scores, \* self.similarity_scores
    pos,               \* index of the next iteration of the running pass
    collect_scores,    \* collect_scores argument of the running pass
    compared,          \* history: the iterations that called calculate_similarity
    given,             \* history: what calculate_signature returned per file
    ret,               \* result of the last direct calculate_similarity call
    result             \* what find_duplicates returned

vars == <<pc, input_dir, hash_size, bands, threshold, file_list, signatures,
          hash_buckets_list, labels, label_counter, similarity_scores,
          pos, collect_scores, compared, given, ret, result>>

\* ------------------------------------------------------------- inputs
Missing == [exists |-> FALSE, files |-> {}]
Directory(S) == [exists |-> TRUE, files |-> S]
Images == 1..NumImages

\* The band counts of a run: one band, or one band per row of the hash image
\* (the command line's default: hash size 16, 16 bands).
Bands(size) == {1, size}

\* calculate_signature returns None for an image it cannot decode.
None == <<-1>>

\* Bit vector number c of length n: c = 0 is all zero; an odd c has its first
\* (c + 1) / 2 bits set, an even c its last c / 2 bits.
Pattern(n, c) ==
    [i \in 1..n |->
        IF c % 2 = 1
        THEN (IF i <= (c + 1) \div 2 THEN 1 ELSE 0)
        ELSE (IF i > n - (c \div 2) THEN 1 ELSE 0)]

\* The bit vectors of length n the signature generator is taken to return.
BitVectors(n) == { Pattern(n, c) : c \in 0..MaxPattern }

\* ------------------------------------------------------------- dicts
Keys(d) == { d[i].k : i \in DOMAIN d }
Has(d, key) == key \in Keys(d)
Get(d, key) == d[CHOOSE i \in DOMAIN d : d[i].k = key].v
Put(d, key, val) ==
    IF Has(d, key)
    THEN [i \in DOMAIN d |-> IF d[i].k = key THEN [k |-> key, v |-> val] ELSE d[i]]
    ELSE Append(d, [k |-> key, v |-> val])

\* ------------------------------------------------------------- numpy
packbits_little(s) ==
    [j \in 1..((Len(s) + 7) \div 8) |->
        LET b(k) == IF 8 * (j - 1) + k <= Len(s) THEN s[8 * (j - 1) + k] ELSE 0
        IN  b(1) + b(2) * 2 + b(3) * 4 + b(4) * 8
            + b(5) * 16 + b(6) * 32 + b(7) * 64 + b(8) * 128]

\* np.packbits: eight bits per byte, most significant first, the last byte
\* padded with zero bits.
packbits(s) ==
    [j \in 1..((Len(s) + 7) \div 8) |->
        LET b(k) == IF 8 * (j - 1) + k <= Len(s) THEN s[8 * (j - 1) + k] ELSE 0
        IN  b(1) * 128 + b(2) * 64 + b(3) * 32 + b(4) * 16
            + b(5) * 8 + b(6) * 4 + b(7) * 2 + b(8)]

\* np.unpackbits: every byte gives eight bits, most significant first.
unpackbits(p) ==
    [i \in 1..(8 * Len(p)) |->
        (p[((i - 1) \div 8) + 1] \div (2 ^ (7 - ((i - 1) % 8)))) % 2]

\* np.count_nonzero(a != b) for two vectors of one length.
count_nonzero_ne(a, b) == Cardinality({ i \in DOMAIN a : a[i] # b[i] })

\* ndarray.tobytes of a band: one byte per element, in order.
tobytes(band) == band

\* ------------------------------------------------------------- LSHProcessor
rows == (hash_size ^ 2) \div bands

\* signature[i * rows : (i + 1) * rows], i counted from 0.
signature_band(signature, i) == SubSeq(signature, i * rows + 1, (i + 1) * rows)

\* Lines 51-53 on one band's dict.
bucket_append(hash_buckets, key, file_path) ==
    IF Has(hash_buckets, key)
    THEN Put(hash_buckets, key, Append(Get(hash_buckets, key), file_path))
    ELSE Put(hash_buckets, key, <<file_path>>)

add_signature(file_path, signature) ==
    IF signature = None
    THEN UNCHANGED <<signatures, hash_buckets_list>>
    ELSE /\ signatures' = Put(signatures, file_path, packbits(signature))
         /\ hash_buckets_list' =
                [i \in 1..bands |->
                    bucket_append(hash_buckets_list[i],
                                  tobytes(signature_band(signature, i - 1)),
                                  file_path)]

calculate_similarity_raises(pair) ==
    LET img_a == pair[1]
        img_b == pair[2]
    IN  IF Has(signatures, img_a) /\ Has(signatures, img_b)
        THEN LET hd == count_nonzero_ne(unpackbits(Get(signatures, img_a)),
                                        unpackbits(Get(signatures, img_b)))
             IN  [img_a |-> img_a, img_b |-> img_b,
                  similarity |-> hash_size ^ 2 - hd, exc |-> "none"]
        ELSE [img_a |-> img_a, img_b |-> img_b, similarity |-> 0, exc |-> "KeyError"]

calculate_similarity_distance(pair) ==
    LET img_a == pair[1]
        img_b == pair[2]
    IN  IF Has(signatures, img_a) /\ Has(signatures, img_b)
        THEN LET hd == count_nonzero_ne(unpackbits(Get(signatures, img_a)),
                                        unpackbits(Get(signatures, img_b)))
             IN  [img_a |-> img_a, img_b |-> img_b,
                  similarity |-> hd, exc |-> "none"]
        ELSE [img_a |-> img_a, img_b |-> img_b, similarity |-> 0, exc |-> "none"]

\* exc is the exception that leaves the call: the KeyError of a failed
\* lookup is caught inside and turned into similarity 0.0.
calculate_similarity(pair) ==
    LET img_a == pair[1]
        img_b == pair[2]
    IN  IF Has(signatures, img_a) /\ Has(signatures, img_b)
        THEN LET hd == count_nonzero_ne(unpackbits(Get(signatures, img_a)),
                                        unpackbits(Get(signatures, img_b)))
             IN  [img_a |-> img_a, img_b |-> img_b,
                  similarity |-> hash_size ^ 2 - hd, exc |-> "none"]
        ELSE [img_a |-> img_a, img_b |-> img_b, similarity |-> 0, exc |-> "none"]

all_pairs(matched_imgs) ==
    LET n == Len(matched_imgs)
        RECURSIVE from(_, _)
        from(i, j) ==
            IF i >= n THEN <<>>
            ELSE IF j > n THEN from(i + 1, i + 2)
            ELSE <<<<matched_imgs[i], matched_imgs[j]>>>> \o from(i, j + 1)
    IN  from(1, 2)

\* zip(matched_imgs, matched_imgs[1:]) under `if len(matched_imgs) > 1`.
consecutive_pairs(matched_imgs) ==
    IF Len(matched_imgs) > 1
    THEN [i \in 1..(Len(matched_imgs) - 1) |-> <<matched_imgs[i], matched_imgs[i + 1]>>]
    ELSE <<>>

\* The iterations of the three nested loops of process_similarities, in
\* order: band (1-based), bucket key, pair.
bucket_iterations(band, bucket) ==
    LET ps == consecutive_pairs(bucket.v)
    IN  [i \in DOMAIN ps |-> [band |-> band, key |-> bucket.k, pair |-> ps[i]]]

RECURSIVE band_iterations(_, _, _)
band_iterations(band, hash_buckets, j) ==
    IF j > Len(hash_buckets) THEN <<>>
    ELSE bucket_iterations(band, hash_buckets[j])
         \o band_iterations(band, hash_buckets, j + 1)

RECURSIVE iterations(_)
iterations(band) ==
    IF band > Len(hash_buckets_list) THEN <<>>
    ELSE band_iterations(band, hash_buckets_list[band], 1) \o iterations(band + 1)

passes_always(similarity) == similarity >= 0

\* `if similarity >= threshold`
passes(similarity) == similarity >= threshold

labels_after_pair_overwrite(img_a, img_b) ==
    LET l1 == IF img_a \notin DOMAIN labels
              THEN labels @@ (img_a :> label_counter)
              ELSE labels
    IN  [x \in DOMAIN l1 \cup {img_b} |-> IF x = img_b THEN l1[img_a] ELSE l1[x]]

\* Lines 96-100: self.labels after a pair that passed the threshold.
labels_after_pair(img_a, img_b) ==
    LET l1 == IF img_a \notin DOMAIN labels
              THEN labels @@ (img_a :> label_counter)
              ELSE labels
    IN  IF img_b \notin DOMAIN l1 THEN l1 @@ (img_b :> l1[img_a]) ELSE l1

counter_after_pair(img_a) ==
    IF img_a \notin DOMAIN labels THEN label_counter + 1 ELSE label_counter

remaining_none(keys, lab, counter) == [labels |-> lab, counter |-> counter]

\* _assign_labels_remaining_images over the keys of self.signatures, in order.
RECURSIVE remaining(_, _, _)
remaining(keys, lab, counter) ==
    IF keys = <<>> THEN [labels |-> lab, counter |-> counter]
    ELSE IF Head(keys) \notin DOMAIN lab
         THEN remaining(Tail(keys), lab @@ (Head(keys) :> counter), counter + 1)
         ELSE remaining(Tail(keys), lab, counter)

\* ------------------------------------------------------------- helpers
Extension(f) == IF f = 0 THEN ".TXT" ELSE <<".png", ".JPG", ".jpeg">>[((f - 1) % 3) + 1]

\* str.lower on the extensions in use.
lower(ext) ==
    CASE ext = ".JPG" -> ".jpg"
      [] ext = ".TXT" -> ".txt"
      [] OTHER -> ext

image_extensions == {".png", ".jpg", ".jpeg"}

\* os.listdir: the directory's files; the order taken is ascending.
RECURSIVE listdir(_)
listdir(d) ==
    IF d = {} THEN <<>>
    ELSE LET f == CHOOSE x \in d : \A y \in d : x <= y
         IN  <<f>> \o listdir(d \ {f})

get_image_files_unwrapped(d) ==
    IF ~d.exists
    THEN [exc |-> "FileNotFoundError", file_list |-> <<>>]
    ELSE [exc |-> "none",
          file_list |-> SelectSeq(listdir(d.files), LAMBDA f : lower(Extension(f)) \in image_extensions)]

\* exc is the exception that leaves the call.
get_image_files(d) ==
    IF ~d.exists
    THEN [exc |-> "ValueError", file_list |-> <<>>]
    ELSE [exc |-> "none",
          file_list |-> SelectSeq(listdir(d.files), LAMBDA f : lower(Extension(f)) \in image_extensions)]

\* ------------------------------------------------------------- pipeline
EmptyResult == [labels |-> <<>>, scores |-> <<>>]
NoReturn == [similarity |-> 0, exc |-> "unset"]

Init ==
    /\ pc = "start"
    /\ input_dir \in {Missing, Directory({})}
                       \cup { Directory(0..n) : n \in 0..NumImages }
    /\ hash_size \in 1..MaxHashSize
    /\ bands \in Bands(hash_size)
    /\ threshold \in 0..(hash_size ^ 2 + 1)
    /\ file_list = <<>>
    /\ signatures = <<>>
    /\ hash_buckets_list = <<>>
    /\ labels = <<>>
    /\ label_counter = 0
    /\ similarity_scores = <<>>
    /\ pos = 1
    /\ collect_scores = FALSE
    /\ compared = <<>>
    /\ given = <<>>
    /\ ret = NoReturn
    /\ result = EmptyResult

\* find_duplicates up to the construction of the LSHProcessor (lines 200-208,
\* 178): the early return of the except clause, or an exception that leaves.
FindDuplicates ==
    /\ pc = "start"
    /\ LET r == get_image_files(input_dir)
       IN  IF r.exc = "ValueError" \/ (r.exc = "none" /\ r.file_list = <<>>)
           THEN /\ pc' = "done"
                /\ result' = EmptyResult
                /\ UNCHANGED <<file_list, hash_buckets_list>>
           ELSE IF r.exc # "none"
           THEN /\ pc' = "raised"
                /\ UNCHANGED <<result, file_list, hash_buckets_list>>
           ELSE /\ pc' = "load"
                /\ file_list' = r.file_list
                /\ hash_buckets_list' = [i \in 1..bands |-> <<>>]
                /\ UNCHANGED result
    /\ UNCHANGED <<input_dir, hash_size, bands, threshold, signatures, labels,
                   label_counter, similarity_scores, pos, collect_scores,
                   compared, given, ret>>

\* One iteration of the loop of process_images.
ProcessImage ==
    /\ pc = "load"
    /\ file_list # <<>>
    /\ \E signature \in BitVectors(hash_size ^ 2) \cup {None} :
          /\ add_signature(Head(file_list), signature)
          /\ given' = given @@ (Head(file_list) :> signature)
    /\ file_list' = Tail(file_list)
    /\ UNCHANGED <<pc, input_dir, hash_size, bands, threshold, labels,
                   label_counter, similarity_scores, pos, collect_scores,
                   compared, ret, result>>

\* assign_labels is called: by find_duplicates once process_images is done,
\* or again on the labelled processor.
AssignLabels ==
    /\ \/ pc = "load" /\ file_list = <<>>
       \/ pc = "labelled"
    /\ pc' = "walk"
    /\ pos' = 1
    /\ collect_scores' = FALSE
    /\ compared' = <<>>
    /\ UNCHANGED <<input_dir, hash_size, bands, threshold, file_list, signatures,
                   hash_buckets_list, labels, label_counter, similarity_scores,
                   given, ret, result>>

\* One iteration of the innermost loop of process_similarities.
ProcessPair ==
    /\ pc = "walk"
    /\ pos <= Len(iterations(1))
    /\ LET it == iterations(1)[pos]
           r == calculate_similarity(it.pair)
       IN  /\ compared' = Append(compared, it)
           /\ IF r.exc # "none"
              THEN /\ pc' = "raised"
                   /\ UNCHANGED <<labels, label_counter, similarity_scores, pos>>
              ELSE /\ pos' = pos + 1
                   /\ pc' = pc
                   /\ IF passes(r.similarity)
                      THEN /\ labels' = labels_after_pair(r.img_a, r.img_b)
                           /\ label_counter' = counter_after_pair(r.img_a)
                           /\ similarity_scores' =
                                  IF collect_scores
                                  THEN Append(similarity_scores,
                                              <<r.img_a, r.img_b, r.similarity>>)
                                  ELSE similarity_scores
                      ELSE UNCHANGED <<labels, label_counter, similarity_scores>>
    /\ UNCHANGED <<input_dir, hash_size, bands, threshold, file_list, signatures,
                   hash_buckets_list, collect_scores, given, ret, result>>

\* The pass of assign_labels is over: _assign_labels_remaining_images runs and
\* assign_labels returns self.labels.
FinishAssignLabels ==
    /\ pc = "walk"
    /\ pos > Len(iterations(1))
    /\ ~collect_scores
    /\ LET r == remaining([i \in DOMAIN signatures |-> signatures[i].k],
                          labels, label_counter)
       IN  /\ labels' = r.labels
           /\ label_counter' = r.counter
    /\ pc' = "labelled"
    /\ UNCHANGED <<input_dir, hash_size, bands, threshold, file_list, signatures,
                   hash_buckets_list, similarity_scores, pos, collect_scores,
                   compared, given, ret, result>>

\* gen_socres is true: get_similarity_scores is called.
GetSimilarityScores ==
    /\ pc = "labelled"
    /\ pc' = "walk"
    /\ pos' = 1
    /\ collect_scores' = TRUE
    /\ compared' = <<>>
    /\ UNCHANGED <<input_dir, hash_size, bands, threshold, file_list, signatures,
                   hash_buckets_list, labels, label_counter, similarity_scores,
                   given, ret, result>>

\* The pass of get_similarity_scores is over; find_duplicates returns.
ReturnScores ==
    /\ pc = "walk"
    /\ pos > Len(iterations(1))
    /\ collect_scores
    /\ pc' = "done"
    /\ result' = [labels |-> labels, scores |-> similarity_scores]
    /\ UNCHANGED <<input_dir, hash_size, bands, threshold, file_list, signatures,
                   hash_buckets_list, labels, label_counter, similarity_scores,
                   pos, collect_scores, compared, given, ret>>

\* gen_socres is false; find_duplicates returns.
ReturnLabels ==
    /\ pc = "labelled"
    /\ pc' = "done"
    /\ result' = [labels |-> labels, scores |-> <<>>]
    /\ UNCHANGED <<input_dir, hash_size, bands, threshold, file_list, signatures,
                   hash_buckets_list, labels, label_counter, similarity_scores,
                   pos, collect_scores, compared, given, ret>>

\* A direct call of calculate_similarity on the processor of the run.
ScorePair(img_a, img_b) ==
    /\ pc = "labelled"
    /\ LET r == calculate_similarity(<<img_a, img_b>>)
       IN  ret' = [similarity |-> r.similarity, exc |-> r.exc]
    /\ pc' = "probed"
    /\ UNCHANGED <<input_dir, hash_size, bands, threshold, file_list, signatures,
                   hash_buckets_list, labels, label_counter, similarity_scores,
                   pos, collect_scores, compared, given, result>>

Next ==
    \/ FindDuplicates
    \/ ProcessImage
    \/ AssignLabels
    \/ ProcessPair
    \/ FinishAssignLabels
    \/ GetSimilarityScores
    \/ ReturnScores
    \/ ReturnLabels
    \/ \E img_a, img_b \in Images : ScorePair(img_a, img_b)

Spec == Init /\ [][Next]_vars

\* The signature store on its own: a constructed processor that
\* process_images fills, over the larger hash sizes.
InitStore ==
    /\ pc = "load"
    /\ input_dir = Directory({0} \cup Images)
    /\ hash_size \in 1..MaxStoreHashSize
    /\ bands \in Bands(hash_size)
    /\ threshold = hash_size ^ 2
    /\ file_list = SubSeq(listdir(Images), 1, MaxStoreFiles)
    /\ signatures = <<>>
    /\ hash_buckets_list = [i \in 1..bands |-> <<>>]
    /\ labels = <<>>
    /\ label_counter = 0
    /\ similarity_scores = <<>>
    /\ pos = 1
    /\ collect_scores = FALSE
    /\ compared = <<>>
    /\ given = <<>>
    /\ ret = NoReturn
    /\ result = EmptyResult

NextStore == ProcessImage

SpecStore == InitStore /\ [][NextStore]_vars

\* ------------------------------------------------------------- properties
\* assign_labels has returned on the processor of the run.
AssignLabelsReturned ==
    \/ pc \in {"labelled", "probed"}
    \/ pc = "done" /\ hash_buckets_list # <<>>
    \/ pc = "walk" /\ collect_scores

\* The last pass of process_similarities has walked every bucket.
PassOver == pc \in {"labelled", "probed"} \/ (pc = "done" /\ hash_buckets_list # <<>>)

Stored == Keys(signatures)

\* The buckets of all bands, as (band, bucket) records.
Buckets ==
    { [band |-> b, key |-> hash_buckets_list[b][j].k, members |-> hash_buckets_list[b][j].v] :
        <<b, j>> \in { <<b2, j2>> \in (DOMAIN hash_buckets_list) \X (1..NumImages) :
                          j2 \in DOMAIN hash_buckets_list[b2] } }

\* Numerator of the similarity of two stored images, from the signatures as
\* the generator returned them.
HammingGiven(a, b) == Cardinality({ i \in 1..(hash_size ^ 2) : given[a][i] # given[b][i] })
ScoreGiven(a, b) == hash_size ^ 2 - HammingGiven(a, b)

\* The pairs <<a, b>> with a right before b in some bucket's list.
AdjacentPairs ==
    UNION { { <<bk.members[i], bk.members[i + 1]>> : i \in 1..(Len(bk.members) - 1) } :
              bk \in Buckets }

\* The adjacent pairs that reach the threshold.
LinkedPairs == { p \in AdjacentPairs : p[1] # p[2] /\ ScoreGiven(p[1], p[2]) >= threshold }

\* The images a chain of the pairs of `links`, in either direction, reaches from S.
RECURSIVE Reach(_, _)
Reach(links, S) ==
    LET T == S \cup { p[2] : p \in { q \in links : q[1] \in S } }
                \cup { p[1] : p \in { q \in links : q[2] \in S } }
    IN  IF T = S THEN S ELSE Reach(links, T)

\* C1: once assign_labels has returned, the keys of the label mapping are
\* exactly the ids held in the signature store, which are exactly the files
\* whose signature was not None; every label is a natural number.
C1_LabelsCoverStore ==
    AssignLabelsReturned =>
        /\ DOMAIN labels = Stored
        /\ DOMAIN labels = { f \in DOMAIN given : given[f] # None }
        /\ \A f \in DOMAIN labels : labels[f] \in Nat

C1_Witness ==
    /\ pc = "labelled"
    /\ Cardinality(DOMAIN labels) >= 2
    /\ \E f \in DOMAIN given : given[f] = None

\* C2: once assign_labels has returned, the two members of every bucket
\* [A, B] whose score reaches the threshold have the same label.
C2_BucketPairSameLabel ==
    AssignLabelsReturned =>
        \A bk \in Buckets :
            (Len(bk.members) = 2
             /\ ScoreGiven(bk.members[1], bk.members[2]) >= threshold)
            => labels[bk.members[1]] = labels[bk.members[2]]

\* C3: an entry of the label mapping is never changed or removed by a later
\* step (a pair of a pass, the labelling of the remaining images, a later
\* get_similarity_scores or assign_labels call).
C3_LabelsNeverChange ==
    [][\A f \in DOMAIN labels : f \in DOMAIN labels' /\ labels'[f] = labels[f]]_vars

\* A pass on the labelled processor has just handled a pair that reaches the
\* threshold and whose two images carry different labels.
C3_Witness ==
    /\ pc = "walk"
    /\ DOMAIN labels = Stored
    /\ compared # <<>>
    /\ LET p == compared[Len(compared)].pair
       IN  /\ ScoreGiven(p[1], p[2]) >= threshold
           /\ labels[p[1]] # labels[p[2]]

\* C4: with threshold 0.0, once assign_labels has returned, all the images
\* of a bucket that holds more than one image have the same label.
C4_ZeroThresholdCollapses ==
    (AssignLabelsReturned /\ threshold = 0) =>
        \A bk \in Buckets :
            Len(bk.members) > 1 =>
                \A i, j \in DOMAIN bk.members :
                    labels[bk.members[i]] = labels[bk.members[j]]

\* C5 as stated: unpacking a stored signature gives the bit vector that was
\* added, for every hash size.
C5_RoundTripExact ==
    \A i \in DOMAIN signatures :
        unpackbits(signatures[i].v) = given[signatures[i].k]

\* C5 as amended: unpacking a stored signature gives the bit vector that was
\* added followed by zero bits up to the next multiple of 8 bits; it is the
\* added vector itself when hash_size^2 is a multiple of 8.
C5_RoundTripPadded ==
    \A i \in DOMAIN signatures :
        LET s == given[signatures[i].k]
            u == unpackbits(signatures[i].v)
            n == hash_size ^ 2
        IN  /\ Len(s) = n
            /\ Len(u) = 8 * ((n + 7) \div 8)
            /\ \A j \in 1..n : u[j] = s[j]
            /\ \A j \in (n + 1)..Len(u) : u[j] = 0
            /\ (n % 8 = 0) => u = s

\* Two signatures of 9 bits are stored, one of them with its last bit set.
C5_Witness ==
    /\ hash_size = 3
    /\ Len(signatures) = 2
    /\ \E i \in DOMAIN signatures : given[signatures[i].k][9] = 1

\* C6: for two stored ids calculate_similarity returns, without raising,
\* (hash_size^2 - d) / hash_size^2 with d the number of positions where the
\* two full signatures differ; it is between 0 and 1, and 1 exactly when the
\* signatures are identical.
C6_SimilarityIsHamming ==
    \A a, b \in Stored :
        LET r == calculate_similarity(<<a, b>>)
        IN  /\ r.exc = "none"
            /\ r.similarity = hash_size ^ 2 - HammingGiven(a, b)
            /\ r.similarity \in 0..(hash_size ^ 2)
            /\ (r.similarity = hash_size ^ 2) <=> (given[a] = given[b])
            /\ r.img_a = a /\ r.img_b = b

\* Two images are stored with 9-bit signatures that differ, one of them in
\* its last bit.
C6_Witness ==
    /\ hash_size = 3
    /\ \E a, b \in Stored :
          /\ given[a] # given[b]
          /\ given[a][9] = 1

\* C7: calculate_similarity on a pair with an id that is not in the store
\* returns 0.0 without raising and changes nothing of the processor; no
\* exception ever leaves a pass or find_duplicates.
C7_MissingLookupScoresZero ==
    /\ [][pc' = "probed" =>
            \A a, b \in Images :
                (~(a \in Stored /\ b \in Stored) /\ ScorePair(a, b))
                => /\ ret'.similarity = 0
                   /\ ret'.exc = "none"
                   /\ UNCHANGED <<signatures, hash_buckets_list, labels,
                                  label_counter, similarity_scores>>]_vars
    /\ [](pc # "raised")

\* A direct call returned 0 on a labelled processor where every stored pair
\* scores above 0: one of its ids was not in the store.
C7_Witness ==
    /\ pc = "probed"
    /\ ret = [similarity |-> 0, exc |-> "none"]
    /\ Cardinality(DOMAIN labels) >= 2
    /\ \A a, b \in Stored : ScoreGiven(a, b) > 0

\* C8: on a directory that does not exist or holds no image file,
\* find_duplicates returns at once, with an empty label mapping and an empty
\* score list, and no exception leaves it.
C8_MissingInputReturnsEmpty ==
    (~input_dir.exists \/ input_dir.files \cap Images = {}) =>
        /\ pc \in {"start", "done"}
        /\ pc = "done" => result = EmptyResult

C8_Witness ==
    /\ pc = "done"
    /\ ~input_dir.exists
    /\ result = EmptyResult

\* The iterations of the last pass that belong to one bucket.
ComparedIn(bk) ==
    SelectSeq(compared, LAMBDA it : it.band = bk.band /\ it.key = bk.key)

\* The premise of C9's example: a bucket [A, B, C] where B fails the threshold
\* against A and against C while A and C reach it.
SkippedPair(bk) ==
    /\ Len(bk.members) = 3
    /\ ScoreGiven(bk.members[1], bk.members[2]) < threshold
    /\ ScoreGiven(bk.members[2], bk.members[3]) < threshold
    /\ ScoreGiven(bk.members[1], bk.members[3]) >= threshold

\* C9 as stated: in a bucket [A, B, C] where B fails the threshold against A
\* and C while A and C reach it, A and C are neither compared nor linked in
\* the pass.
C9_SkippedPairNeverLinked ==
    PassOver =>
        \A bk \in Buckets :
            SkippedPair(bk) =>
                /\ \A i \in DOMAIN compared :
                      compared[i].pair # <<bk.members[1], bk.members[3]>>
                /\ labels[bk.members[1]] # labels[bk.members[3]]

\* C9 as amended: the pairs scored for a bucket [m0, ..., m(n-1)] are exactly
\* its n - 1 consecutive pairs, in order (none when n <= 1), and every scored
\* pair is a consecutive pair of the bucket it was scored for; so for a bucket
\* [A, B, C] where B fails the threshold against A and C while A and C reach
\* it, the pair (A, C) is not scored for that bucket: it is scored in the pass
\* only for a bucket of another band where A and C are consecutive, and A and
\* C get one label only through a chain of consecutive pairs that reach the
\* threshold.
C9_ConsecutivePairsScored ==
    PassOver =>
        /\ \A bk \in Buckets :
              LET sc == ComparedIn(bk)
                  m == bk.members
              IN  /\ Len(sc) = (IF Len(m) > 1 THEN Len(m) - 1 ELSE 0)
                  /\ \A i \in DOMAIN sc : sc[i].pair = <<m[i], m[i + 1]>>
                  /\ SkippedPair(bk) =>
                        /\ \A i \in DOMAIN compared :
                              compared[i].pair = <<m[1], m[3]>>
                              => /\ compared[i].band # bk.band
                                 /\ <<m[1], m[3]>> \in AdjacentPairs
                        /\ labels[m[1]] = labels[m[3]]
                              => m[3] \in Reach(LinkedPairs, {m[1]})
        /\ \A i \in DOMAIN compared :
              \E bk \in Buckets :
                  /\ bk.band = compared[i].band
                  /\ bk.key = compared[i].key
                  /\ \E j \in 1..(Len(bk.members) - 1) :
                        compared[i].pair = <<bk.members[j], bk.members[j + 1]>>

\* A pass is over on a processor with a bucket [A, B, C] of that kind, and
\* has scored (A, C) for a bucket of another band.
C9_Witness ==
    /\ PassOver
    /\ \E bk \in Buckets :
          /\ SkippedPair(bk)
          /\ \E i \in DOMAIN compared :
                compared[i].pair = <<bk.members[1], bk.members[3]>>

\* C10: two distinct images with one label are connected by a chain of pairs,
\* each consecutive in some bucket and reaching the threshold; an image that
\* _assign_labels_remaining_images labels (one that is in no such pair, which
\* the pass leaves unlabelled) has a label no other image has; the labels in
\* use are exactly 0 .. label_counter - 1.
C10_NoFalseMerges ==
    LET links == LinkedPairs
        inpair == { p[1] : p \in links } \cup { p[2] : p \in links }
    IN  /\ \A x \in DOMAIN labels :
              \A y \in { z \in DOMAIN labels : z # x /\ labels[z] = labels[x] } :
                  y \in Reach(links, {x})
        /\ AssignLabelsReturned =>
              \A x \in DOMAIN labels \ inpair :
                  \A y \in DOMAIN labels : y # x => labels[y] # labels[x]
        /\ { labels[x] : x \in DOMAIN labels } = 0..(label_counter - 1)

\* assign_labels has returned with two images merged, a third image that
\* shares a bucket with them kept apart, and an image labelled on its own.
C10_Witness ==
    /\ pc = "labelled"
    /\ \E x, y, z \in DOMAIN labels :
          /\ x # y /\ labels[x] = labels[y]
          /\ labels[z] # labels[x]
          /\ <<y, z>> \in AdjacentPairs \/ <<x, z>> \in AdjacentPairs
          /\ \A p \in LinkedPairs : z # p[1] /\ z # p[2]

====
